---- MODULE Spec2Model ----
(***************************************************************************)
(* Model of the RP Companion relay (src/server.js, revision v1.2.2g,       *)
(* lines 241-553): buildProviderConfig, callApi and the two endpoints      *)
(* POST /api/chat and POST /api/draft behind the express.json middleware.  *)
(*                                                                         *)
(* Text is modelled as a sequence of tokens, so that concatenation is \o   *)
(* and "ends with" / "contains" are statements about tokens.  Strings that *)
(* the code inspects character by character (API keys that are trimmed,    *)
(* model names that are lower-cased and searched) are sequences of         *)
(* one-character tokens.  A JavaScript value that may be undefined, a      *)
(* string or a number is a record [t, v].                                  *)
(***************************************************************************)
EXTENDS Integers, Sequences, FiniteSets, TLC

VARIABLES env, pc, req, outbound, calls, up, res, sent, bIn, bOut, pIn, pOut

vars == <<env, pc, req, outbound, calls, up, res, sent, bIn, bOut, pIn, pOut>>

(***************************************************************************)
(* Bounds of the model.                                                    *)
(***************************************************************************)
MaxMsgs == 3
MaxChatMsgs == 2
MaxDraftMsgs == 1

(***************************************************************************)
(* JavaScript values.                                                      *)
(***************************************************************************)
Undefined == [t |-> "undefined", v |-> <<>>]

Str(s) == [t |-> "string", v |-> s]

Num(s) == [t |-> "number", v |-> s]

\* JavaScript truthiness of undefined/null, a string, or a non-zero number.
Truthy(x) ==
  CASE x.t = "undefined" -> FALSE
    [] x.t = "string"    -> x.v # <<>>
    [] OTHER             -> TRUE

\* a || b
OrElse(a, b) == IF Truthy(a) THEN a ELSE b

\* String.prototype.trim on a sequence of characters.
RECURSIVE TrimLeft(_)
TrimLeft(s) ==
  IF s # <<>> /\ Head(s) = " " THEN TrimLeft(Tail(s)) ELSE s

RECURSIVE TrimRight(_)
TrimRight(s) ==
  IF s # <<>> /\ s[Len(s)] = " " THEN TrimRight(SubSeq(s, 1, Len(s) - 1)) ELSE s

Trim(s) == TrimRight(TrimLeft(s))

\* String.prototype.toLowerCase, character by character.
LowerChar(c) ==
  CASE c = "G" -> "g"
    [] c = "L" -> "l"
    [] c = "M" -> "m"
    [] c = "P" -> "p"
    [] c = "T" -> "t"
    [] c = "X" -> "x"
    [] OTHER   -> c

ToLowerCase(s) == [i \in 1..Len(s) |-> LowerChar(s[i])]

\* String.prototype.includes
Includes(s, sub) ==
  \E i \in 1..(Len(s) - Len(sub) + 1) : SubSeq(s, i, i + Len(sub) - 1) = sub

(***************************************************************************)
(* Literals of the source.                                                 *)
(***************************************************************************)
NOTHINK == "\n/nothink"

Providers == {"mancer", "openrouter", "openai", "anthropic"}

EnvVar(provider) ==
  CASE provider = "mancer"     -> "MANCER_API_KEY"
    [] provider = "openrouter" -> "OPENROUTER_API_KEY"
    [] provider = "openai"     -> "OPENAI_API_KEY"
    [] provider = "anthropic"  -> "ANTHROPIC_API_KEY"

EnvVars == {EnvVar(p) : p \in Providers}

DisplayName(provider) ==
  CASE provider = "mancer"     -> "Mancer"
    [] provider = "openrouter" -> "OpenRouter"
    [] provider = "openai"     -> "OpenAI"
    [] provider = "anthropic"  -> "Anthropic"

ApiUrl(provider) ==
  CASE provider = "mancer"     -> "https://neuro.mancer.tech/oai/v1/chat/completions"
    [] provider = "openrouter" -> "https://openrouter.ai/api/v1/chat/completions"
    [] provider = "openai"     -> "https://api.openai.com/v1/chat/completions"
    [] provider = "anthropic"  -> "https://api.anthropic.com/v1/messages"

\* The header that carries the credential.
AuthHeader(provider) ==
  CASE provider = "mancer"     -> "X-API-KEY"
    [] provider = "anthropic"  -> "x-api-key"
    [] OTHER                   -> "Authorization"

(***************************************************************************)
(* Results of a synchronous computation: a value, or a thrown Error with   *)
(* its message (a text).                                                   *)
(***************************************************************************)
Throw(message) == [ok |-> FALSE, error |-> message]

NotConfigured(provider) ==
  Throw(<<DisplayName(provider), " API Key not configured. Add ", EnvVar(provider),
          " to Railway env vars or provide your own key.">>)

Built(apiUrl, headers, body) ==
  [ok |-> TRUE, apiUrl |-> apiUrl, headers |-> headers, body |-> body]

(***************************************************************************)
(* buildProviderConfig                                                     *)
(***************************************************************************)
\* process.env[name]
ProcessEnv(name) == env[name]

\* userApiKey || process.env.<PROVIDER>_API_KEY
ResolveKey(provider, userApiKey) == OrElse(userApiKey, ProcessEnv(EnvVar(provider)))

\* `Bearer ${API_KEY}`
Bearer(key) == Str(<<"Bearer ">> \o key.v)

\* Index of the last message whose role is 'user', 0 when there is none.
LastUserIdx(messages) ==
  LET S == {i \in 1..Len(messages) : messages[i].role = "user"}
  IN  IF S = {} THEN 0 ELSE CHOOSE i \in S : \A j \in S : j <= i

\* The mancer branch's copy of the messages with '\n/nothink' appended to the
\* last user message.
MancerMessages(messages) ==
  LET realIdx == LastUserIdx(messages)
  IN  IF realIdx = 0 THEN messages
      ELSE [messages EXCEPT ![realIdx].content = @ \o <<NOTHINK>>]

\* systemMsg after the filter callback has run over every message: the content
\* of the last system message, '' when there is none.
RECURSIVE SystemMsg(_)
SystemMsg(messages) ==
  IF messages = <<>> THEN <<>>
  ELSE LET last == messages[Len(messages)]
       IN  IF last.role = "system" THEN last.content
           ELSE SystemMsg(SubSeq(messages, 1, Len(messages) - 1))

IsNotSystem(m) == m.role # "system"

ApiMsgs(messages) == SelectSeq(messages, IsNotSystem)

\* The sanitising loop: merge consecutive same-role messages.
RECURSIVE Sanitise(_, _)
Sanitise(sanitised, rest) ==
  IF rest = <<>> THEN sanitised
  ELSE LET msg == Head(rest)
           n   == Len(sanitised)
       IN  IF n > 0 /\ sanitised[n].role = msg.role
           THEN Sanitise([sanitised EXCEPT ![n].content = @ \o <<"\n\n">> \o msg.content],
                         Tail(rest))
           ELSE Sanitise(Append(sanitised, [role |-> msg.role, content |-> msg.content]),
                         Tail(rest))

\* Append the continuation prompt when the conversation ends with assistant.
EndWithUser(sanitised) ==
  IF Len(sanitised) > 0 /\ sanitised[Len(sanitised)].role = "assistant"
  THEN Append(sanitised, [role |-> "user", content |-> <<"Please continue.">>])
  ELSE sanitised

\* At least one user message.
AtLeastOne(sanitised) ==
  IF Len(sanitised) = 0
  THEN <<[role |-> "user", content |-> <<"Begin.">>]>>
  ELSE sanitised

\* Mutant: the v1.2.2 body, which sent the filtered list as it was.
AnthropicMessages_unsanitised(messages) == ApiMsgs(messages)

AnthropicMessages(messages) == AtLeastOne(EndWithUser(Sanitise(<<>>, ApiMsgs(messages))))

BaseHeaders == [h \in {"Content-Type"} |-> Str(<<"application/json">>)]

MancerConfig(model, messages, key) ==
  Built(ApiUrl("mancer"),
        ("X-API-KEY" :> key) @@ BaseHeaders,
        [model |-> model, messages |-> MancerMessages(messages), temperature |-> "0.7",
         max_tokens |-> 2048, enable_thinking |-> FALSE])

OpenRouterConfig(model, messages, key) ==
  Built(ApiUrl("openrouter"),
        ("Authorization" :> Bearer(key))
          @@ ("HTTP-Referer" :> Str(<<"https://rp-companion.up.railway.app">>))
          @@ ("X-Title" :> Str(<<"RP Companion">>)) @@ BaseHeaders,
        [model |-> model, messages |-> messages, max_tokens |-> 1024])

OpenAIConfig(model, messages, key) ==
  Built(ApiUrl("openai"),
        ("Authorization" :> Bearer(key)) @@ BaseHeaders,
        [model |-> model, messages |-> messages, max_tokens |-> 1024])

AnthropicConfig(model, messages, key) ==
  Built(ApiUrl("anthropic"),
        ("x-api-key" :> key) @@ ("anthropic-version" :> Str(<<"2023-06-01">>)) @@ BaseHeaders,
        [model |-> model, max_tokens |-> 1024, system |-> SystemMsg(messages),
         messages |-> AnthropicMessages(messages)])

buildProviderConfig(provider, model, messages, userApiKey) ==
  IF provider \notin Providers
  THEN Throw(<<"Unknown provider: ", provider>>)
  ELSE LET API_KEY == ResolveKey(provider, userApiKey)
       IN  IF ~Truthy(API_KEY) THEN NotConfigured(provider)
           ELSE CASE provider = "mancer"     -> MancerConfig(model, messages, API_KEY)
                  [] provider = "openrouter" -> OpenRouterConfig(model, messages, API_KEY)
                  [] provider = "openai"     -> OpenAIConfig(model, messages, API_KEY)
                  [] provider = "anthropic"  -> AnthropicConfig(model, messages, API_KEY)

(***************************************************************************)
(* Input domains.                                                          *)
(***************************************************************************)
NoValue == [none |-> TRUE]

Roles == {"system", "user", "assistant"}

\* Message contents; the second is a text in which the user typed the marker.
Contents == {<<"Hi">>, <<"Go", NOTHINK>>}

Messages == [role : Roles, content : Contents]

SeqsUpTo(S, n) == UNION {[1..k -> S] : k \in 0..n}

\* The server-side key of a provider, as a string of characters.
ServerKey(name) ==
  CASE name = "MANCER_API_KEY"     -> Str(<<"s", "k", "M">>)
    [] name = "OPENROUTER_API_KEY" -> Str(<<"s", "k", "R">>)
    [] name = "OPENAI_API_KEY"     -> Str(<<"s", "k", "O">>)
    [] name = "ANTHROPIC_API_KEY"  -> Str(<<"s", "k", "A">>)

\* Which environment variables are set: all, none, or two of the four.
EnvConfigs == {EnvVars, {}, {"MANCER_API_KEY", "OPENAI_API_KEY"}}

Envs == {[n \in EnvVars |-> IF n \in S THEN ServerKey(n) ELSE Undefined] : S \in EnvConfigs}

ProviderValues == Providers \cup {"other", "undefined"}

(***************************************************************************)
(* SpecBuild: buildProviderConfig applied to an arbitrary argument list.   *)
(***************************************************************************)
BuilderInputs ==
  [provider : Providers \cup {"other"},
   model : {Str(<<"g", "p", "t">>)},
   messages : SeqsUpTo(Messages, MaxMsgs),
   userApiKey : {Undefined, Str(<<"u", "k">>)}]

Idle ==
  /\ pc = "idle"
  /\ req = NoValue
  /\ outbound = NoValue
  /\ calls = 0
  /\ up = NoValue
  /\ res = NoValue
  /\ sent = 0

InitBuild ==
  /\ env \in Envs
  /\ Idle
  /\ bIn \in BuilderInputs
  /\ bOut = NoValue
  /\ pIn = NoValue
  /\ pOut = NoValue

Build ==
  /\ bIn # NoValue
  /\ bOut = NoValue
  /\ bOut' = buildProviderConfig(bIn.provider, bIn.model, bIn.messages, bIn.userApiKey)
  /\ UNCHANGED <<env, pc, req, outbound, calls, up, res, sent, bIn, pIn, pOut>>

NextBuild == Build

SpecBuild == InitBuild /\ [][NextBuild]_vars

RolesOf(messages) == [i \in 1..Len(messages) |-> messages[i].role]

BuiltAnthropic == bOut # NoValue /\ bIn.provider = "anthropic" /\ bOut.ok

\* C1: for provider 'anthropic' and any list of system, user and assistant
\* messages (the empty list and system-only lists included), body.messages has
\* no two adjacent entries with the same role and its last entry is a user turn.
C1_AnthropicAlternatesAndEndsWithUser ==
  BuiltAnthropic =>
    LET m == bOut.body.messages
    IN  /\ Len(m) >= 1
        /\ m[Len(m)].role = "user"
        /\ \A i \in 1..(Len(m) - 1) : m[i].role # m[i + 1].role

\* Two assistant turns separated only by a system message: merged into one, and
\* the continuation prompt appended.
C1_Witness ==
  /\ BuiltAnthropic
  /\ RolesOf(bIn.messages) = <<"assistant", "system", "assistant">>
  /\ RolesOf(bOut.body.messages) = <<"assistant", "user">>

\* The empty list and a system-only list both yield the single 'Begin.' turn.
C1_WitnessEmpty ==
  /\ BuiltAnthropic
  /\ RolesOf(bIn.messages) = <<"system">>
  /\ bOut.body.messages = <<[role |-> "user", content |-> <<"Begin.">>]>>

(***************************************************************************)
(* The endpoints.  A handler runs synchronously up to its first await (the *)
(* fetch inside callApi): the result of that prefix is either a response   *)
(* or an outbound provider request.                                        *)
(***************************************************************************)
Respond(status, error) == [next |-> "respond", status |-> status, error |-> error]

Fetch(cfg) ==
  [next |-> "fetch", apiUrl |-> cfg.apiUrl, headers |-> cfg.headers, body |-> cfg.body]

\* catch (err) { res.status(500).json({ error: err.message || 'Internal server error' }) }
Caught(message) ==
  Respond(500, IF message # <<>> THEN message ELSE <<"Internal server error">>)

\* !messages || messages.length === 0
NoMessages(messages) == messages.t = "undefined" \/ Len(messages.v) = 0

\* Mutant: the chat endpoint forwards the caller's key.
ChatKeyArg_fromBody(body) == body.userApiKey

\* The userApiKey argument the chat endpoint passes to the builder: null.
ChatKeyArg(body) == Undefined

chatHandler(body) ==
  IF NoMessages(body.messages) THEN Respond(400, <<"No messages provided">>)
  ELSE LET cfg == buildProviderConfig(body.provider, body.model, body.messages.v,
                                      ChatKeyArg(body))
       IN  IF ~cfg.ok THEN Caught(cfg.error) ELSE Fetch(cfg)

\* !userApiKey || userApiKey.trim() === ''   (for a string or an absent key)
UsingServerKey(userApiKey) == ~Truthy(userApiKey) \/ Trim(userApiKey.v) = <<>>

\* Mutant: the caller's key is passed on without being trimmed.
DraftKeyArg_untrimmed(userApiKey) ==
  IF UsingServerKey(userApiKey) THEN Undefined ELSE userApiKey

\* usingServerKey ? null : userApiKey.trim()
DraftKeyArg(userApiKey) ==
  IF UsingServerKey(userApiKey) THEN Undefined ELSE Str(Trim(userApiKey.v))

\* activeCharName || 'the main character'
AiCharName(activeCharName) ==
  IF activeCharName # <<>> THEN activeCharName ELSE <<"the main character">>

DraftSystemPrompt(draftChar, draftPrompt, aiCharName) ==
  LET draftName == draftChar.name
  IN  <<"You are a screenwriter's assistant helping draft dialogue and action for a roleplay scene.\n\nYOUR TASK:\nWrite the next line(s) for the character \"">>
      \o draftName \o <<"\" only.\n\nCHARACTER PROFILE - ">> \o draftName \o <<":\n">>
      \o draftChar.desc
      \o <<"\n\nTHE SCENE SO FAR:\nBelow is the conversation transcript. ">>
      \o aiCharName \o <<" and ">> \o draftName
      \o <<" are the two characters.\nRead it carefully to understand tone, tension, and pacing.\nYour job is to write what ">>
      \o draftName \o <<" says or does NEXT - responding to ">> \o aiCharName
      \o <<"'s most recent line.\n\nSTRICT RULES:\n- Write ONLY as ">> \o draftName
      \o <<"\n- Do NOT write as ">> \o aiCharName
      \o <<"\n- Do NOT repeat, echo, or extend ">> \o aiCharName
      \o <<"'s last line\n- Do NOT include any preamble, explanation, reasoning, or meta-commentary\n- Do NOT think out loud - output ONLY ">>
      \o draftName
      \o <<"'s reply, nothing else\n- Start your output directly with ">> \o draftName
      \o <<"'s words or action">>
      \o (IF draftPrompt # <<>>
          THEN <<"\n\nDIRECTION FOR THIS DRAFT:\n">> \o draftPrompt
          ELSE <<>>)

\* Mutant: only user messages are given to the draft character.
Paragraph_userOnly(m, aiCharName, draftName) ==
  (IF m.role = "user" THEN draftName ELSE aiCharName) \o <<":\n">> \o m.content

\* `${speaker}:\n${m.content}`
Paragraph(m, aiCharName, draftName) ==
  (IF m.role = "assistant" THEN aiCharName ELSE draftName) \o <<":\n">> \o m.content

\* messages.map(...).join('\n\n')
RECURSIVE Transcript(_, _, _)
Transcript(messages, aiCharName, draftName) ==
  IF messages = <<>> THEN <<>>
  ELSE IF Len(messages) = 1 THEN Paragraph(messages[1], aiCharName, draftName)
  ELSE Paragraph(messages[1], aiCharName, draftName) \o <<"\n\n">>
         \o Transcript(Tail(messages), aiCharName, draftName)

TranscriptUserMsg(messages, aiCharName, draftName) ==
  <<"SCENE TRANSCRIPT:\n\n">> \o Transcript(messages, aiCharName, draftName)
    \o <<"\n\n---\n">> \o <<"Now write ">> \o draftName \o <<"'s next reply. Output only ">>
    \o draftName \o <<"'s response, nothing else.">>

DraftMessages(body) ==
  LET aiCharName == AiCharName(body.activeCharName)
      draftName  == body.draftChar.name
  IN  <<[role |-> "system",
         content |-> DraftSystemPrompt(body.draftChar, body.draftPrompt, aiCharName)],
        [role |-> "user",
         content |-> TranscriptUserMsg(body.messages.v, aiCharName, draftName)]>>

\* if (provider === 'anthropic') body.max_tokens = 2048
BumpMaxTokens(provider, body) ==
  IF provider = "anthropic" THEN [body EXCEPT !.max_tokens = 2048] ELSE body

\* Mutant: the model name is searched without being lower-cased.
SuppressThinking_caseSensitive(provider, model) ==
  provider = "mancer" \/ Includes(model.v, <<"g", "l", "m">>)

\* provider === 'mancer' || model.toLowerCase().includes('glm'), for a string model
SuppressThinking(provider, model) ==
  provider = "mancer" \/ Includes(ToLowerCase(model.v), <<"g", "l", "m">>)

\* body.enable_thinking = false, and '\n/nothink' appended to the last message of
\* body.messages when its role is 'user'.
ApplySuppression(body) ==
  LET msgs == body.messages
      n    == Len(msgs)
      out  == IF n > 0 /\ msgs[n].role = "user"
              THEN [msgs EXCEPT ![n].content = @ \o <<NOTHINK>>]
              ELSE msgs
  IN  ("enable_thinking" :> FALSE) @@ [body EXCEPT !.messages = out]

\* The post-build adjustments of /api/draft.
AdjustDraft(provider, model, cfg) ==
  LET bumped == [cfg EXCEPT !.body = BumpMaxTokens(provider, cfg.body)]
  IN  IF provider # "mancer" /\ model.t # "string"
      THEN Throw(<<"model.toLowerCase is not a function">>)
      ELSE IF SuppressThinking(provider, model)
      THEN [bumped EXCEPT !.body = ApplySuppression(bumped.body)]
      ELSE bumped

draftHandler(body) ==
  IF Truthy(body.userApiKey) /\ body.userApiKey.t # "string"
  THEN Caught(<<"userApiKey.trim is not a function">>)
  ELSE IF NoMessages(body.messages) THEN Respond(400, <<"No messages provided">>)
  ELSE IF ~body.draftChar.present \/ body.draftChar.name = <<>>
  THEN Respond(400, <<"No draft character provided">>)
  ELSE LET cfg == buildProviderConfig(body.provider, body.model, DraftMessages(body),
                                      DraftKeyArg(body.userApiKey))
       IN  IF ~cfg.ok THEN Caught(cfg.error)
           ELSE LET adj == AdjustDraft(body.provider, body.model, cfg)
                IN  IF ~adj.ok THEN Caught(adj.error) ELSE Fetch(adj)

(***************************************************************************)
(* callApi, from the point where the fetch promise settles.  A provider    *)
(* response is [transport, status, body]; a parsed JSON object body has    *)
(* the fields the code reads, an absent or empty text being <<>>.          *)
(***************************************************************************)
\* response.ok
ResponseOk(status) == status >= 200 /\ status <= 299

\* responseData.error?.message
ErrorMessage(error) == IF error.t = "object" THEN error.message ELSE <<>>

\* typeof responseData.error === 'string' ? responseData.error : null
ErrorString(error) == IF error.t = "string" THEN error.v ELSE <<>>

\* a || b on two texts
OrText(a, b) == IF a # <<>> THEN a ELSE b

\* Mutant: the top-level message is preferred to the error field.
ErrMsg_messageFirst(data) ==
  OrText(data.message,
         OrText(ErrorMessage(data.error),
                OrText(ErrorString(data.error), <<"API request failed">>)))

ErrMsg(data) ==
  OrText(ErrorMessage(data.error),
         OrText(ErrorString(data.error),
                OrText(data.message, <<"API request failed">>)))

Extracted(finalText, reasoningContent) ==
  [ok |-> TRUE, finalText |-> finalText, reasoningContent |-> reasoningContent]

ExtractAnthropic(data) ==
  IF data.kind = "null" \/ data.contentText = <<>>
  THEN Throw(<<"Could not extract text from Anthropic response">>)
  ELSE Extracted(data.contentText, <<>>)

\* Mutant: reasoning text is never promoted to be the reply.
ExtractChoices_noPromotion(data) ==
  IF data.kind = "null" \/ ~data.choicesMessage.present
  THEN Throw(<<"No message found in API response">>)
  ELSE LET message   == data.choicesMessage
           finalText == OrText(message.content, message.text)
       IN  IF finalText = <<>> THEN Throw(<<"Could not extract text from API response">>)
           ELSE Extracted(finalText, message.reasoning_content)

ExtractChoices(data) ==
  IF data.kind = "null" \/ ~data.choicesMessage.present
  THEN Throw(<<"No message found in API response">>)
  ELSE LET message          == data.choicesMessage
           text             == OrText(message.content, message.text)
           reasoningContent == message.reasoning_content
           finalText        == OrText(text, reasoningContent)
       IN  IF finalText = <<>> THEN Throw(<<"Could not extract text from API response">>)
           ELSE Extracted(finalText, reasoningContent)

callApi(provider, response) ==
  IF response.transport # "ok" THEN Throw(<<"fetch failed">>)
  ELSE IF response.body.kind = "nonjson"
  THEN Throw(<<"Unexpected token in JSON at position 0">>)
  ELSE IF ~ResponseOk(response.status)
  THEN IF response.body.kind = "null"
       THEN Throw(<<"Cannot read properties of null (reading 'error')">>)
       ELSE Throw(ErrMsg(response.body))
  ELSE IF provider = "anthropic" THEN ExtractAnthropic(response.body)
  ELSE ExtractChoices(response.body)

(***************************************************************************)
(* Responses to the caller.                                                *)
(***************************************************************************)
JsonError(status, error) ==
  [status |-> status, type |-> "json", body |-> [error |-> error]]

\* { choices: [{ message: { role: 'assistant', content, reasoning_content } }] }
JsonSuccess(finalText, reasoningContent) ==
  [status |-> 200, type |-> "json",
   body |-> [choices |-> <<[message |-> [role |-> "assistant", content |-> finalText,
                                          reasoning_content |-> reasoningContent]]>>]]

\* What Express's default error handler writes for an error no middleware of
\* the application handles: the error's status and an HTML page.
HtmlError(status) == [status |-> status, type |-> "html", body |-> [html |-> status]]

\* The tail of both handlers after `await callApi(...)`.
handlerTail(provider, response) ==
  LET out == callApi(provider, response)
  IN  IF out.ok THEN JsonSuccess(out.finalText, out.reasoningContent)
      ELSE LET r == Caught(out.error) IN JsonError(r.status, r.error)

\* express.json(): the default limit of the body parser, '100kb'.
JsonLimit == 102400

\* The outcome of express.json() on a request: the parsed body is handed to the
\* route, or the parser's error goes to the default error handler.
expressJson(request) ==
  IF request.size > JsonLimit THEN [next |-> "error", status |-> 413]
  ELSE IF request.malformed THEN [next |-> "error", status |-> 400]
  ELSE [next |-> "route", status |-> 0]

(***************************************************************************)
(* Requests and provider responses of the model.                           *)
(***************************************************************************)
Array(v) == [t |-> "array", v |-> v]

\* One message per role, and a user message in which the marker was typed.
FlowMessages ==
  [role : Roles, content : {<<"Hi">>}] \cup {[role |-> "user", content |-> <<"Go", NOTHINK>>]}

ModelValues ==
  {Undefined, Str(<<"g", "p", "t">>), Str(<<"G", "L", "M">>),
   Str(<<"x", "g", "L", "m", "4">>)}

\* absent, empty, whitespace only, a key, a key with blanks around it, a number
UserKeyValues ==
  {Undefined, Str(<<>>), Str(<<" ">>), Str(<<"u", "k">>), Str(<<" ", "u", "k", " ">>),
   Num(<<"1", "2", "3">>)}

NoChar == [present |-> FALSE, name |-> <<>>, desc |-> <<>>]

DraftChars ==
  {NoChar,
   [present |-> TRUE, name |-> <<>>, desc |-> <<"a thief">>],
   [present |-> TRUE, name |-> <<"Sam">>, desc |-> <<"a thief">>]}

ChatBodies ==
  [provider : ProviderValues,
   model : {Undefined, Str(<<"G", "L", "M">>)},
   messages : {Undefined} \cup {Array(m) : m \in SeqsUpTo(FlowMessages, MaxChatMsgs)},
   userApiKey : {Undefined, Str(<<"u", "k">>)},
   draftChar : {NoChar},
   draftPrompt : {<<>>},
   activeCharName : {<<>>}]

DraftBodies ==
  [provider : ProviderValues,
   model : ModelValues,
   messages : {Undefined} \cup {Array(m) : m \in SeqsUpTo(FlowMessages, MaxDraftMsgs)},
   userApiKey : UserKeyValues,
   draftChar : DraftChars,
   draftPrompt : {<<>>, <<"Be brief.">>},
   activeCharName : {<<>>, <<"Victoria">>}]

Endpoints == {"chat", "draft"}

\* A request whose body express.json() parses, and the requests it refuses
\* (too large, or not JSON), whose body no handler ever sees.
ParsedRequests ==
  [endpoint : {"chat"}, size : {JsonLimit}, malformed : {FALSE}, body : ChatBodies]
    \cup [endpoint : {"draft"}, size : {JsonLimit}, malformed : {FALSE}, body : DraftBodies]

RefusedRequests ==
  [endpoint : Endpoints, size : {JsonLimit + 1}, malformed : BOOLEAN, body : {NoValue}]
    \cup [endpoint : Endpoints, size : {JsonLimit}, malformed : {TRUE}, body : {NoValue}]

Requests == ParsedRequests \cup RefusedRequests

NoError == [t |-> "undefined", v |-> <<>>, message |-> <<>>, raw |-> <<>>]

ErrorValues ==
  {NoError, [NoError EXCEPT !.t = "string", !.v = <<"E">>]}
    \cup {[NoError EXCEPT !.t = "object", !.message = m, !.raw = r] :
            m \in {<<>>, <<"too many ", "token", "s">>}, r \in {<<>>, <<"RAW">>}}

NoChoice == [present |-> FALSE, content |-> <<>>, text |-> <<>>, reasoning_content |-> <<>>]

ChoiceValues ==
  {NoChoice}
    \cup [present : {TRUE}, content : {<<>>, <<"C">>}, text : {<<>>, <<"T">>},
          reasoning_content : {<<>>, <<"R">>}]

EmptyObject ==
  [kind |-> "object", error |-> NoError, message |-> <<>>, choicesMessage |-> NoChoice,
   contentText |-> <<>>]

JsonBodies ==
  {[EmptyObject EXCEPT !.error = e, !.message = m] :
     e \in ErrorValues, m \in {<<>>, <<"M">>}}
    \cup {[EmptyObject EXCEPT !.choicesMessage = c] : c \in ChoiceValues}
    \cup {[EmptyObject EXCEPT !.contentText = <<"AT">>]}
    \cup {[EmptyObject EXCEPT !.contentText = <<"AT">>,
                              !.choicesMessage = [NoChoice EXCEPT !.present = TRUE,
                                                                  !.content = <<"C">>]]}
    \cup {[EmptyObject EXCEPT !.kind = "null"]}

Statuses == {200, 201, 402, 413, 429, 500}

UpstreamResponses ==
  [transport : {"ok"}, status : Statuses,
   body : JsonBodies \cup {[EmptyObject EXCEPT !.kind = "nonjson"]}]

TransportFailure == [transport |-> "failed", status |-> 0, body |-> EmptyObject]

(***************************************************************************)
(* Spec: one inbound request from its arrival to its response.  Requests   *)
(* share nothing but the read-only environment, so one request at a time   *)
(* shows every behaviour.                                                  *)
(***************************************************************************)
Init ==
  /\ env \in Envs
  /\ Idle
  /\ bIn = NoValue
  /\ bOut = NoValue
  /\ pIn = NoValue
  /\ pOut = NoValue

AuxUnchanged == UNCHANGED <<env, bIn, bOut, pIn, pOut>>

Receive ==
  /\ pc = "idle"
  /\ \E r \in Requests : req' = r
  /\ pc' = "received"
  /\ UNCHANGED <<outbound, calls, up, res, sent>>
  /\ AuxUnchanged

\* app.use(express.json())
ExpressJson ==
  /\ pc = "received"
  /\ LET r == expressJson(req)
     IN  IF r.next = "route"
         THEN pc' = "routed" /\ UNCHANGED <<res, sent>>
         ELSE pc' = "done" /\ res' = HtmlError(r.status) /\ sent' = sent + 1
  /\ UNCHANGED <<req, outbound, calls, up>>
  /\ AuxUnchanged

\* The handler up to `await fetch(...)`, or to the response it sends before.
RunHandler(r) ==
  /\ IF r.next = "fetch"
     THEN /\ outbound' = [apiUrl |-> r.apiUrl, headers |-> r.headers, body |-> r.body]
          /\ calls' = calls + 1
          /\ pc' = "awaiting"
          /\ UNCHANGED <<res, sent>>
     ELSE /\ res' = JsonError(r.status, r.error)
          /\ sent' = sent + 1
          /\ pc' = "done"
          /\ UNCHANGED <<outbound, calls>>
  /\ UNCHANGED <<req, up>>
  /\ AuxUnchanged

\* app.post('/api/chat')
ChatHandler ==
  /\ pc = "routed"
  /\ req.endpoint = "chat"
  /\ RunHandler(chatHandler(req.body))

\* app.post('/api/draft')
DraftHandler ==
  /\ pc = "routed"
  /\ req.endpoint = "draft"
  /\ RunHandler(draftHandler(req.body))

\* fetch resolves with a provider response: callApi and the handler run on.
FetchResolves ==
  /\ pc = "awaiting"
  /\ \E r \in UpstreamResponses :
       /\ up' = r
       /\ res' = handlerTail(req.body.provider, r)
  /\ sent' = sent + 1
  /\ pc' = "done"
  /\ UNCHANGED <<req, outbound, calls>>
  /\ AuxUnchanged

\* fetch rejects (the transport failed): the handler's catch block runs.
FetchRejects ==
  /\ pc = "awaiting"
  /\ up' = TransportFailure
  /\ res' = handlerTail(req.body.provider, TransportFailure)
  /\ sent' = sent + 1
  /\ pc' = "done"
  /\ UNCHANGED <<req, outbound, calls>>
  /\ AuxUnchanged

Next ==
  \/ Receive
  \/ ExpressJson
  \/ ChatHandler
  \/ DraftHandler
  \/ FetchResolves
  \/ FetchRejects

Spec == Init /\ [][Next]_vars

(***************************************************************************)
(* Properties.                                                             *)
(***************************************************************************)
Called == pc \in {"awaiting", "done"} /\ outbound # NoValue

Parsed == pc \in {"routed", "awaiting", "done"} /\ req.body # NoValue

Last(s) == s[Len(s)]

\* 'glm' occurs in the name in some mix of upper and lower case.
ContainsGlmAnyCase(name) ==
  \E i \in 1..(Len(name) - 2) :
    /\ name[i] \in {"g", "G"}
    /\ name[i + 1] \in {"l", "L"}
    /\ name[i + 2] \in {"m", "M"}

SuppressionDue(endpoint, body) ==
  \/ body.provider = "mancer"
  \/ endpoint = "draft" /\ body.model.t = "string" /\ ContainsGlmAnyCase(body.model.v)

\* C2: on the draft path, when the provider is 'mancer' or the model name
\* contains 'glm' in any letter case, the outbound body has enable_thinking =
\* false and the content of its last user message ends with '\n/nothink';
\* otherwise the body has no enable_thinking flag and its last user message is
\* the transcript message, unchanged.
C2_DraftSuppression ==
  (Called /\ req.endpoint = "draft") =>
    LET b    == outbound.body
        u    == LastUserIdx(b.messages)
        composed == DraftMessages(req.body)[2].content
    IN  /\ u > 0
        /\ IF SuppressionDue("draft", req.body)
           THEN /\ "enable_thinking" \in DOMAIN b
                /\ b.enable_thinking = FALSE
                /\ Last(b.messages[u].content) = NOTHINK
           ELSE /\ "enable_thinking" \notin DOMAIN b
                /\ b.messages[u].content = composed

\* Suppression by model name alone: an upper-case GLM on a provider other than
\* mancer.
C2_Witness ==
  /\ Called
  /\ req.endpoint = "draft"
  /\ req.body.provider = "anthropic"
  /\ req.body.model = Str(<<"G", "L", "M">>)
  /\ outbound.body.enable_thinking = FALSE
  /\ Last(Last(outbound.body.messages).content) = NOTHINK

\* No suppression: another model on another provider.
C2_WitnessNone ==
  /\ Called
  /\ req.endpoint = "draft"
  /\ req.body.provider = "openai"
  /\ req.body.model = Str(<<"g", "p", "t">>)
  /\ "enable_thinking" \notin DOMAIN outbound.body

RECURSIVE CountMarker(_)
CountMarker(text) ==
  IF text = <<>> THEN 0
  ELSE (IF Head(text) = NOTHINK THEN 1 ELSE 0) + CountMarker(Tail(text))

RECURSIVE CountMarkers(_)
CountMarkers(messages) ==
  IF messages = <<>> THEN 0
  ELSE CountMarker(Head(messages).content) + CountMarkers(Tail(messages))

\* The markers in the outbound messages that were not in the caller's messages.
MarkersAdded == CountMarkers(outbound.body.messages) - CountMarkers(req.body.messages.v)

\* C3 as stated: whenever suppression applies and the outbound list has a user
\* turn, the relay has appended the marker exactly once.
C3_ExactlyOnce ==
  (Called /\ SuppressionDue(req.endpoint, req.body)
     /\ LastUserIdx(outbound.body.messages) > 0)
    => MarkersAdded = 1

\* The credential carried by the outbound request's auth header.
AuthKey(provider, headers) ==
  LET h == headers[AuthHeader(provider)].v
  IN  IF provider \in {"openrouter", "openai"} THEN Tail(h) ELSE h

IsBlank(chars) == \A i \in 1..Len(chars) : chars[i] = " "

\* k is s without its leading and trailing blanks.
IsTrimOf(k, s) ==
  \E i, j \in 1..Len(s) :
    /\ k = SubSeq(s, i, j)
    /\ s[i] # " " /\ s[j] # " "
    /\ \A n \in 1..Len(s) : (n < i \/ n > j) => s[n] = " "

\* The caller's key counts: a string that is not empty after trimming, on the
\* endpoint that reads it.
CallerKeyUsable(endpoint, body) ==
  endpoint = "draft" /\ body.userApiKey.t = "string" /\ ~IsBlank(body.userApiKey.v)

ServerKeySet(provider) == env[EnvVar(provider)].t = "string" /\ env[EnvVar(provider)].v # <<>>

\* The request gets as far as the builder with one of the four providers.
ReachesBuilder ==
  /\ Parsed
  /\ req.body.provider \in Providers
  /\ ~NoMessages(req.body.messages)
  /\ req.endpoint = "draft" =>
       /\ req.body.userApiKey.t # "number"
       /\ req.body.draftChar.present /\ req.body.draftChar.name # <<>>

C4_WitnessMissing ==
  /\ pc = "done"
  /\ req.body # NoValue
  /\ req.endpoint = "draft"
  /\ req.body.provider = "anthropic"
  /\ req.body.userApiKey = Str(<<" ">>)
  /\ res.status = 500
  /\ res.body = [error |-> NotConfigured("anthropic").error]
  /\ calls = 0

(***************************************************************************)
(* SpecPair: /api/chat run on two request bodies that differ at most in    *)
(* their userApiKey field, under the same environment.                     *)
(***************************************************************************)
ChatPairs ==
  {<<b, [b EXCEPT !.userApiKey = k]>> : b \in ChatBodies, k \in UserKeyValues}

InitPair ==
  /\ env \in Envs
  /\ Idle
  /\ bIn = NoValue
  /\ bOut = NoValue
  /\ pIn \in ChatPairs
  /\ pOut = NoValue

ChatPair ==
  /\ pIn # NoValue
  /\ pOut = NoValue
  /\ pOut' = <<chatHandler(pIn[1]), chatHandler(pIn[2])>>
  /\ UNCHANGED <<env, pc, req, outbound, calls, up, res, sent, bIn, bOut, pIn>>

NextPair == ChatPair

SpecPair == InitPair /\ [][NextPair]_vars

\* C5: two /api/chat requests that differ only in userApiKey end the same way,
\* with the same outbound URL, headers and body, and an outbound request
\* carries the server's key; without that key the request fails with the
\* configuration error.
C5_ChatIgnoresCallerKey ==
  pOut # NoValue =>
    LET p == pIn[1].provider
    IN  /\ pOut[1] = pOut[2]
        /\ \A i \in 1..2 :
             pOut[i].next = "fetch" =>
               ServerKeySet(p) /\ AuthKey(p, pOut[i].headers) = env[EnvVar(p)].v
        /\ (p \in Providers /\ ~NoMessages(pIn[1].messages) /\ ~ServerKeySet(p)) =>
             \A i \in 1..2 : pOut[i] = Caught(NotConfigured(p).error)

\* One request without a key and one with the caller's own key, both sent out.
C5_Witness ==
  /\ pOut # NoValue
  /\ pIn[1].userApiKey = Undefined
  /\ pIn[2].userApiKey = Str(<<"u", "k">>)
  /\ pIn[1].provider = "openrouter"
  /\ pOut[2].next = "fetch"

IsErrorEnvelope(r) == r.type = "json" /\ DOMAIN r.body = {"error"} /\ r.status >= 400

IsSuccessEnvelope(r) ==
  /\ r.type = "json"
  /\ r.status = 200
  /\ DOMAIN r.body = {"choices"}
  /\ Len(r.body.choices) = 1
  /\ r.body.choices[1].message.role = "assistant"
  /\ r.body.choices[1].message.content # <<>>

\* C6 as stated: a request over the size limit ends with a JSON error that names
\* the size, and no provider call is made for it.
C6_OversizedRejectedAsJson ==
  (pc = "done" /\ req.size > JsonLimit) =>
    /\ IsErrorEnvelope(res)
    /\ res.status = 413
    /\ calls = 0
    /\ outbound = NoValue

\* C7 as stated: on both endpoints a parsed request without messages, or with an
\* empty list, ends with status 400 and the JSON error 'No messages provided',
\* whatever its other fields are.
C7_NoMessagesIs400 ==
  (pc = "done" /\ req.body # NoValue /\ NoMessages(req.body.messages)) =>
    /\ res.status = 400
    /\ res = JsonError(400, <<"No messages provided">>)
    /\ calls = 0

\* The provider answered with a JSON body and a status outside 2xx.
UpstreamRefused ==
  /\ pc = "done"
  /\ up # NoValue
  /\ up.transport = "ok"
  /\ ~(up.status \in 200..299)

\* The class of a refusal as the specification defines it.
Classify(response) ==
  CASE response.status = 429 -> "RateLimited"
    [] response.status = 402 -> "InsufficientCredits"
    [] response.status = 413 -> "ContextTooLong"
    [] \E i \in 1..Len(response.body.error.message) :
         response.body.error.message[i] \in {"context", "token"} -> "ContextTooLong"
    [] OTHER -> "UpstreamError"

\* The class a caller can read off the failure: the propagated status.
ObservedClass(r) ==
  CASE r.status = 429 -> "RateLimited"
    [] r.status = 402 -> "InsufficientCredits"
    [] r.status = 413 -> "ContextTooLong"
    [] OTHER          -> "UpstreamError"

C9_OneJsonResponse ==
  pc = "done" =>
    /\ sent = 1
    /\ IsSuccessEnvelope(res) \/ IsErrorEnvelope(res)

\* Request validation as the endpoints define it.
ValidationSucceeds ==
  /\ req.body # NoValue
  /\ ~NoMessages(req.body.messages)
  /\ req.endpoint = "draft" => req.body.draftChar.present /\ req.body.draftChar.name # <<>>

\* The builder is reached and returns a request: a known provider and a key.
BuilderSucceeds ==
  /\ ReachesBuilder
  /\ CallerKeyUsable(req.endpoint, req.body) \/ ServerKeySet(req.body.provider)

\* C10 as stated: one provider call when validation and the builder succeed,
\* none otherwise.
C10_OneCallIffBuilt ==
  pc = "done" =>
    calls = IF ValidationSucceeds /\ BuilderSucceeds THEN 1 ELSE 0

\* The provider answered 2xx with a JSON body (an object, or null).
UpstreamAccepted ==
  /\ pc = "done"
  /\ up # NoValue
  /\ up.transport = "ok"
  /\ up.status \in 200..299
  /\ up.body.kind \in {"object", "null"}

Replied(content, reasoning) ==
  /\ res.type = "json"
  /\ res.status = 200
  /\ Len(res.body.choices) = 1
  /\ res.body.choices[1].message.role = "assistant"
  /\ res.body.choices[1].message.content = content
  /\ res.body.choices[1].message.reasoning_content = reasoning

Failed(error) ==
  /\ res.type = "json"
  /\ res.status = 500
  /\ DOMAIN res.body = {"error"}
  /\ res.body.error = error

\* C11: for a 2xx response of a provider other than anthropic that has
\* choices[0].message, the reply is content, else text, else the reasoning text,
\* and reasoning_content is returned beside it (null, here <<>>, when absent);
\* with none of the three, or without choices[0].message, extraction fails.  For
\* a 2xx anthropic response the reply is content[0].text with a null reasoning
\* content, and its absence is an extraction failure.
C11_Extraction ==
  UpstreamAccepted =>
    LET b == up.body
        m == b.choicesMessage
    IN  IF req.body.provider = "anthropic"
        THEN IF b.kind = "object" /\ b.contentText # <<>>
             THEN Replied(b.contentText, <<>>)
             ELSE Failed(<<"Could not extract text from Anthropic response">>)
        ELSE IF b.kind = "object" /\ m.present
             THEN IF m.content # <<>> THEN Replied(m.content, m.reasoning_content)
                  ELSE IF m.text # <<>> THEN Replied(m.text, m.reasoning_content)
                  ELSE IF m.reasoning_content # <<>>
                  THEN Replied(m.reasoning_content, m.reasoning_content)
                  ELSE Failed(<<"Could not extract text from API response">>)
             ELSE Failed(<<"No message found in API response">>)

\* A message with reasoning text only: the reasoning text is the reply.
C11_Witness ==
  /\ UpstreamAccepted
  /\ req.body.provider = "openai"
  /\ up.body.kind = "object"
  /\ up.body.choicesMessage.present
  /\ up.body.choicesMessage.content = <<>>
  /\ up.body.choicesMessage.text = <<>>
  /\ up.body.choicesMessage.reasoning_content = <<"R">>
  /\ Replied(<<"R">>, <<"R">>)

\* An anthropic body that also has an OpenAI-shaped message: content[0].text wins.
C11_WitnessAnthropic ==
  /\ UpstreamAccepted
  /\ req.body.provider = "anthropic"
  /\ up.body.kind = "object"
  /\ up.body.choicesMessage.present
  /\ Replied(<<"AT">>, <<>>)

(***************************************************************************)
(* SpecDraft: the /api/draft handler, up to its outbound request, on       *)
(* message lists of up to MaxMsgs messages, roles the data model does not  *)
(* know included.                                                          *)
(***************************************************************************)
TranscriptMessages == [role : Roles \cup {"tool"}, content : Contents]

Sam == [present |-> TRUE, name |-> <<"Sam">>, desc |-> <<"a thief">>]

DraftInputs ==
  [provider : {"openai", "anthropic"},
   model : {Str(<<"g", "p", "t">>)},
   messages : {Array(m) : m \in SeqsUpTo(TranscriptMessages, MaxMsgs)},
   userApiKey : {Str(<<"u", "k">>)},
   draftChar : {Sam},
   draftPrompt : {<<>>},
   activeCharName : {<<>>, <<"Victoria">>}]

InitDraft ==
  /\ env \in Envs
  /\ Idle
  /\ bIn \in DraftInputs
  /\ bOut = NoValue
  /\ pIn = NoValue
  /\ pOut = NoValue

ComposeDraft ==
  /\ bIn # NoValue
  /\ bOut = NoValue
  /\ bOut' = draftHandler(bIn)
  /\ UNCHANGED <<env, pc, req, outbound, calls, up, res, sent, bIn, pIn, pOut>>

NextDraft == ComposeDraft

SpecDraft == InitDraft /\ [][NextDraft]_vars

Composed == bOut # NoValue /\ bOut.next = "fetch"

\* The transcript inside the outbound user message: what lies between the
\* heading and the closing instruction (six tokens for a one-token name).
SentTranscript ==
  LET content == Last(bOut.body.messages).content
  IN  SubSeq(content, 2, Len(content) - 6)

\* The speaker the claim gives to a message.
SpeakerOf(m) ==
  IF m.role = "assistant"
  THEN (IF bIn.activeCharName # <<>> THEN bIn.activeCharName ELSE <<"the main character">>)
  ELSE bIn.draftChar.name

\* Where the i-th paragraph starts in the transcript: after the paragraphs
\* before it and one separator for each.
RECURSIVE StartOf(_, _)
StartOf(messages, i) ==
  IF i = 1 THEN 1
  ELSE StartOf(messages, i - 1)
         + Len(SpeakerOf(messages[i - 1])) + 1 + Len(messages[i - 1].content) + 1

\* C12: the draft transcript has one paragraph per input message, in input
\* order, each the speaker, ':\n' and the content, with one blank line between
\* neighbours and nothing else; the speaker is the active character's name (or
\* its placeholder) for an assistant message and the draft character's name for
\* any other role.
C12_TranscriptParagraphs ==
  Composed =>
    LET msgs == bIn.messages.v
        n    == Len(msgs)
        T    == SentTranscript
    IN  /\ Len(T) = StartOf(msgs, n) + Len(SpeakerOf(msgs[n])) + Len(msgs[n].content)
        /\ \A i \in 1..n :
             LET a == StartOf(msgs, i)
                 k == Len(SpeakerOf(msgs[i]))
                 c == Len(msgs[i].content)
             IN  /\ SubSeq(T, a, a + k - 1) = SpeakerOf(msgs[i])
                 /\ T[a + k] = ":\n"
                 /\ SubSeq(T, a + k + 1, a + k + c) = msgs[i].content
                 /\ i < n => T[a + k + c + 1] = "\n\n"

\* A system, an assistant and an unknown-role message: three paragraphs, the
\* first and the last spoken by the draft character.
C12_Witness ==
  /\ Composed
  /\ bIn.activeCharName = <<"Victoria">>
  /\ RolesOf(bIn.messages.v) = <<"system", "assistant", "tool">>
  /\ \A i \in 1..3 : bIn.messages.v[i].content = <<"Hi">>
  /\ SentTranscript = <<"Sam", ":\n", "Hi", "\n\n", "Victoria", ":\n", "Hi", "\n\n",
                        "Sam", ":\n", "Hi">>

\* The tokens of a message list in order, each with the role of its message,
\* the blank lines that join merged messages left out.
RECURSIVE RoleTokens(_)
RoleTokens(messages) ==
  IF messages = <<>> THEN <<>>
  ELSE LET m    == Head(messages)
           kept == SelectSeq(m.content, LAMBDA t : t # "\n\n")
       IN  [i \in 1..Len(kept) |-> <<m.role, kept[i]>>] \o RoleTokens(Tail(messages))

RECURSIVE CountJoins(_)
CountJoins(messages) ==
  IF messages = <<>> THEN 0
  ELSE Len(SelectSeq(Head(messages).content, LAMBDA t : t = "\n\n"))
         + CountJoins(Tail(messages))

\* body.messages without the turn the builder itself appends.
WithoutSynthetic(messages) ==
  IF Last(messages).content \in {<<"Please continue.">>, <<"Begin.">>}
  THEN SubSeq(messages, 1, Len(messages) - 1)
  ELSE messages

\* s occurs in t as a run of neighbouring tokens.
OccursIn(s, t) == \E i \in 1..(Len(t) - Len(s) + 1) : SubSeq(t, i, i + Len(s) - 1) = s

\* The messages of the anthropic body keep every non-system input message, in
\* order and under its role, merged neighbours joined by one blank line.
NonSystemPreserved ==
  LET input == SelectSeq(bIn.messages, LAMBDA m : m.role # "system")
      out   == WithoutSynthetic(bOut.body.messages)
  IN  /\ \A i \in 1..Len(bOut.body.messages) : bOut.body.messages[i].role # "system"
      /\ RoleTokens(out) = RoleTokens(input)
      /\ CountJoins(out) = Len(input) - Len(out)

\* C13 as stated: for provider 'anthropic' no system entry remains in
\* body.messages, the content of every system message of the input is carried
\* in body.system, and the other messages keep their order and content.
C13_SystemCarriedAndRestPreserved ==
  BuiltAnthropic =>
    /\ NonSystemPreserved
    /\ \A i \in 1..Len(bIn.messages) :
         bIn.messages[i].role = "system" => OccursIn(bIn.messages[i].content, bOut.body.system)

====
